---- MODULE Spec2Model ----
(***************************************************************************)
(* mini-monitor: the health classifier (checker.py), the alert decision    *)
(* engine (alerts.py, db.py) and the check-scheduling orchestrator with    *)
(* its worker pool (monitor.py), with the on-demand checks of the          *)
(* remote-control bot (telegram_bot.py).                                   *)
(*                                                                         *)
(* Time is the integer wall clock read by time.time().  Python None is the *)
(* value None; a missing row of a table is a key outside the table's       *)
(* DOMAIN.                                                                 *)
(***************************************************************************)
EXTENDS Integers, Sequences, FiniteSets, TLC

VARIABLES
    clock,           \* the wall clock, what time.time() returns now
    config_pages,    \* Config.pages, in the order of targets.yml
    max_checks_per_run, \* Defaults.max_checks_per_run
    max_workers,     \* Defaults.max_workers
    ttfb_limits,     \* warn_ttfb_sec and crit_ttfb_sec of the AlertProfile
    profile,         \* the counts and cooldown of the AlertProfile every page uses
    retention_days,  \* Defaults.retention_days
    hash_of,         \* stable_hash of every target id
    checks,          \* table checks: rows [target_id, timestamp]
    alert_state,     \* table alert_state: target_id -> AlertState row
    phase,           \* position of monitor.main: "idle" or "checking"
    cycle_now,       \* main's local now (monitor.py:119) of the latest cycle
    due,             \* main's pages_to_check before the cap (monitor.py:122-125)
    pages_to_check,  \* main's pages_to_check after the cap (monitor.py:128-129)
    pending,         \* futures submitted to the pool and not yet finished
    bot_checks,      \* number of on-demand checks the bot has run
    evals,           \* number of evaluations fed directly to EvalTarget
    last_eval,       \* log: the latest of these evaluations
    run,             \* log: the current run of equal observations among them
    script,          \* log: alerts produced while they follow ExampleHealths
    delivered_at,    \* log: time of the latest delivered notification per target
    probed,          \* log: pages for which a probe was ever run
    last_probe_cycle, \* log: cycle_now of the latest cycle that probed a page
    workers,         \* position and locals of check_page for each submitted page
    checked,         \* the latest metrics classified by PageChecker.check
    bot,             \* position and locals of the bot's check_single_site
    prunes           \* log: calls of cleanup_old_checks in the latest cycle

\* The configuration, fixed after Config.__init__.
config_vars == <<config_pages, max_checks_per_run, max_workers, ttfb_limits, profile,
                 retention_days, hash_of>>

vars == <<clock, config_vars, checks,
          alert_state, phase, cycle_now, due, pages_to_check, pending,
          bot_checks, evals, last_eval, run, script, delivered_at,
          probed, last_probe_cycle, workers, checked, bot, prunes>>

----------------------------------------------------------------------------
(* Bounds of the model *)

MaxClock == 5          \* the orchestrator's clock stops here
MaxEvals == 5          \* evaluations fed directly to EvalTarget
MaxCount == 2          \* fail_count_to_alert and recover_count range over 1..MaxCount
MaxHash == 1           \* stable_hash values range over 0..MaxHash
MaxBotChecks == 1      \* on-demand checks of the bot
EverySecA == 2         \* every_sec of the first configured page
EverySecB == 3         \* every_sec of the second configured page
MaxChecksPerRun == 2   \* Defaults.max_checks_per_run ranges over 1..MaxChecksPerRun
MaxWorkers == 2        \* Defaults.max_workers ranges over 1..MaxWorkers
MaxTtfb == 7           \* ttfb and its limits range over 0..MaxTtfb, in units of 0.5 s

(* Program constants *)

DefaultFailCount == 2      \* config.py:80
DefaultRecoverCount == 2   \* config.py:81
DefaultCooldownSec == 300  \* config.py:83
DefaultRetentionDays == 14 \* config.py:49
DaySec == 86400            \* db.py:207, 24 * 3600
DefaultWarnTtfb == 3       \* config.py:78, 1.5 s in units of 0.5 s
DefaultCritTtfb == 6       \* config.py:79, 3.0 s in units of 0.5 s
ExpectedHttp == 200        \* config.py:98, the default expect_http is [200]

None == -1

\* Python truthiness of an Optional[float]: None and 0.0 are both falsy.
Falsy(x) == x = None \/ x = 0

HealthStates == {"OK", "SLOW", "DOWN"}

NoAlert == "NONE"

----------------------------------------------------------------------------
(* Configuration: Config.pages, in configuration order *)

Pages ==
    << [target_id |-> "site:home", every_sec |-> EverySecA],
       [target_id |-> "site:api",  every_sec |-> EverySecB] >>

PageIds == 1..Len(Pages)

TargetIds == {Pages[i].target_id : i \in PageIds}

EvalTarget == Pages[1].target_id

----------------------------------------------------------------------------
(* checker.py: PageChecker *)

HttpCodes == {None, ExpectedHttp, 500}

\* The body curl returned: None, the empty string, a text that contains
\* page.token, a text that does not.
Bodies == {"NULL", "EMPTY", "WITH_TOKEN", "WITHOUT_TOKEN"}

\* CheckMetrics as far as check reads it; error is the truth value of
\* metrics.error, ttfb is None or a time in units of 0.5 s.
Metrics ==
    [error : BOOLEAN, http_code : HttpCodes, body : Bodies,
     ttfb : {None} \cup (0..MaxTtfb)]

\* CheckMetrics(), every field None.
NoMetrics ==
    [error |-> FALSE, http_code |-> None, body |-> "NULL", ttfb |-> None]

\* What _run_curl returns when the probe exceeds its timeout.
TimeoutMetrics ==
    [error |-> TRUE, http_code |-> None, body |-> "NULL", ttfb |-> None]

\* PageChecker.check on the metrics _run_curl returned: (ok, state).
Check(metrics, limits) ==
    IF metrics.error
    THEN [ok |-> FALSE, state |-> "DOWN"]
    ELSE IF metrics.http_code \notin {ExpectedHttp}
    THEN [ok |-> FALSE, state |-> "DOWN"]
    ELSE IF metrics.body \in {"NULL", "EMPTY"} \/ metrics.body # "WITH_TOKEN"
    THEN [ok |-> FALSE, state |-> "DOWN"]
    ELSE IF metrics.ttfb = None
    THEN [ok |-> FALSE, state |-> "DOWN"]
    ELSE IF metrics.ttfb >= limits.crit_ttfb_sec
    THEN [ok |-> TRUE, state |-> "SLOW"]
    ELSE IF metrics.ttfb >= limits.warn_ttfb_sec
    THEN [ok |-> TRUE, state |-> "SLOW"]
    ELSE [ok |-> TRUE, state |-> "OK"]

DefaultTtfbLimits ==
    [warn_ttfb_sec |-> DefaultWarnTtfb, crit_ttfb_sec |-> DefaultCritTtfb]

NoCheck == [metrics |-> NoMetrics, ok |-> FALSE, state |-> "NONE"]

----------------------------------------------------------------------------
(* db.py: table alert_state *)

HasAlertState(tbl, t) == t \in DOMAIN tbl

\* Database.update_alert_state: an absent (None) bad_since_ts or last_sent_ts
\* keeps the stored value of an existing row.
UpdateAlertState(tbl, t, new_state, bad_since_ts, last_sent_ts, cf, cs) ==
    LET row ==
          IF HasAlertState(tbl, t)
          THEN [last_state |-> new_state,
                bad_since_ts |-> IF bad_since_ts # None THEN bad_since_ts
                                 ELSE tbl[t].bad_since_ts,
                last_sent_ts |-> IF last_sent_ts # None THEN last_sent_ts
                                 ELSE tbl[t].last_sent_ts,
                consecutive_failures |-> cf,
                consecutive_successes |-> cs]
          ELSE [last_state |-> new_state,
                bad_since_ts |-> bad_since_ts,
                last_sent_ts |-> last_sent_ts,
                consecutive_failures |-> cf,
                consecutive_successes |-> cs]
    IN [x \in (DOMAIN tbl) \cup {t} |-> IF x = t THEN row ELSE tbl[x]]

----------------------------------------------------------------------------
(* db.py: table checks *)

RECURSIVE MaxOf(_)
MaxOf(S) ==
    LET x == CHOOSE y \in S : TRUE
    IN IF S = {x} THEN x
       ELSE LET m == MaxOf(S \ {x}) IN IF x > m THEN x ELSE m

\* Database.get_last_check_time: MAX(timestamp) of the target's rows, None
\* when there is no row or the maximum is falsy.
GetLastCheckTime(tbl, t) ==
    LET ts == {c.timestamp : c \in {x \in tbl : x.target_id = t}}
    IN IF ts = {} THEN None
       ELSE IF Falsy(MaxOf(ts)) THEN None ELSE MaxOf(ts)

\* Database.save_check
SaveCheck(tbl, t, timestamp) ==
    tbl \cup {[target_id |-> t, timestamp |-> timestamp]}

\* CleanupOldChecks deleting the rows at the cutoff as well.
CleanupOldChecksInclusive(tbl, days, now) ==
    LET cutoff == now - (days * DaySec)
    IN {c \in tbl : ~(c.timestamp <= cutoff)}

\* Database.cleanup_old_checks, called when time.time() is now.
CleanupOldChecks(tbl, days, now) ==
    LET cutoff == now - (days * DaySec)
    IN {c \in tbl : ~(c.timestamp < cutoff)}

----------------------------------------------------------------------------
(* alerts.py: AlertManager *)

IsBad(s) == s \in {"SLOW", "DOWN"}

\* NewFailures that keeps the count of failures when the health is OK.
NewFailuresKeptOnOk(cur, new_state) ==
    IF IsBad(new_state) THEN cur.consecutive_failures + 1
    ELSE cur.consecutive_failures

NewFailures(cur, new_state) ==
    IF IsBad(new_state) THEN cur.consecutive_failures + 1
    ELSE IF new_state = "OK" THEN 0
    ELSE cur.consecutive_failures

\* NewSuccesses that keeps the count of successes when the health is bad.
NewSuccessesKeptOnBad(cur, new_state) ==
    IF new_state = "OK" THEN cur.consecutive_successes + 1
    ELSE cur.consecutive_successes

NewSuccesses(cur, new_state) ==
    IF IsBad(new_state) THEN 0
    ELSE IF new_state = "OK" THEN cur.consecutive_successes + 1
    ELSE cur.consecutive_successes

\* AlertType with the test of last_sent_ts left out of the last branch.
AlertTypeNoSentTest(cur, new_state, prof) ==
    LET old_state == cur.last_state
        new_failures == NewFailures(cur, new_state)
        new_successes == NewSuccesses(cur, new_state)
        by_state == IF new_state = "DOWN" THEN "DOWN" ELSE "SLOW"
    IN IF old_state = "OK" /\ IsBad(new_state)
       THEN IF new_failures >= prof.fail_count_to_alert THEN by_state ELSE NoAlert
       ELSE IF IsBad(old_state) /\ new_state = "OK"
       THEN IF new_successes >= prof.recover_count THEN "RECOVERED" ELSE NoAlert
       ELSE IF old_state = "SLOW" /\ new_state = "DOWN"
       THEN IF new_failures >= prof.fail_count_to_alert THEN "DOWN" ELSE NoAlert
       ELSE IF old_state = "DOWN" /\ new_state = "SLOW"
       THEN "SLOW"
       ELSE IF IsBad(new_state) /\ IsBad(old_state)
       THEN IF new_failures >= prof.fail_count_to_alert THEN by_state ELSE NoAlert
       ELSE NoAlert

\* AlertType with the test of recover_count left out of the second branch.
AlertTypeRecoverAlways(cur, new_state, prof) ==
    LET old_state == cur.last_state
        new_failures == NewFailures(cur, new_state)
        by_state == IF new_state = "DOWN" THEN "DOWN" ELSE "SLOW"
    IN IF old_state = "OK" /\ IsBad(new_state)
       THEN IF new_failures >= prof.fail_count_to_alert THEN by_state ELSE NoAlert
       ELSE IF new_state = "OK"
       THEN "RECOVERED"
       ELSE IF old_state = "SLOW" /\ new_state = "DOWN"
       THEN IF new_failures >= prof.fail_count_to_alert THEN "DOWN" ELSE NoAlert
       ELSE IF old_state = "DOWN" /\ new_state = "SLOW"
       THEN "SLOW"
       ELSE IF IsBad(new_state) /\ IsBad(old_state)
       THEN IF new_failures >= prof.fail_count_to_alert /\ Falsy(cur.last_sent_ts)
            THEN by_state ELSE NoAlert
       ELSE NoAlert

\* The if/elif chain that sets should_alert and alert_type; NoAlert when
\* should_alert stays False.
AlertType(cur, new_state, prof) ==
    LET old_state == cur.last_state
        new_failures == NewFailures(cur, new_state)
        new_successes == NewSuccesses(cur, new_state)
        by_state == IF new_state = "DOWN" THEN "DOWN" ELSE "SLOW"
    IN IF old_state = "OK" /\ IsBad(new_state)
       THEN IF new_failures >= prof.fail_count_to_alert THEN by_state ELSE NoAlert
       ELSE IF IsBad(old_state) /\ new_state = "OK"
       THEN IF new_successes >= prof.recover_count THEN "RECOVERED" ELSE NoAlert
       ELSE IF old_state = "SLOW" /\ new_state = "DOWN"
       THEN IF new_failures >= prof.fail_count_to_alert THEN "DOWN" ELSE NoAlert
       ELSE IF old_state = "DOWN" /\ new_state = "SLOW"
       THEN "SLOW"
       ELSE IF IsBad(new_state) /\ IsBad(old_state)
       THEN IF new_failures >= prof.fail_count_to_alert /\ Falsy(cur.last_sent_ts)
            THEN by_state ELSE NoAlert
       ELSE NoAlert

\* AlertManager._send_alert: False without credentials, else what the
\* transport answers.
SendAlert(has_credentials, transport_ok) == has_credentials /\ transport_ok

\* Every value _send_alert can return.
SendResults == {SendAlert(c, x) : c \in BOOLEAN, x \in BOOLEAN}

\* FirstCheck storing bad_since_ts = now whatever the health.
FirstCheckAlwaysBadSince(tbl, t, new_state, now) ==
    UpdateAlertState(tbl, t, new_state,
                     now,
                     None,
                     IF IsBad(new_state) THEN 1 ELSE 0,
                     IF IsBad(new_state) THEN 0 ELSE 1)

\* First check of a target: initialise the row, never alert.
FirstCheck(tbl, t, new_state, now) ==
    UpdateAlertState(tbl, t, new_state,
                     IF IsBad(new_state) THEN now ELSE None,
                     None,
                     IF IsBad(new_state) THEN 1 ELSE 0,
                     IF IsBad(new_state) THEN 0 ELSE 1)

\* AlertedUpdate storing last_sent_ts = now whether or not delivery succeeded.
AlertedUpdateIgnoringSuccess(tbl, t, new_state, now, success) ==
    LET cur == tbl[t]
        bad_since == IF IsBad(new_state) /\ Falsy(cur.bad_since_ts) THEN now
                     ELSE cur.bad_since_ts
    IN UpdateAlertState(tbl, t, new_state,
                        IF IsBad(new_state) THEN bad_since ELSE None,
                        now,
                        NewFailures(cur, new_state),
                        NewSuccesses(cur, new_state))

\* The branch taken when should_alert is True.
AlertedUpdate(tbl, t, new_state, now, success) ==
    LET cur == tbl[t]
        bad_since == IF IsBad(new_state) /\ Falsy(cur.bad_since_ts) THEN now
                     ELSE cur.bad_since_ts
    IN UpdateAlertState(tbl, t, new_state,
                        IF IsBad(new_state) THEN bad_since ELSE None,
                        IF success THEN now ELSE cur.last_sent_ts,
                        NewFailures(cur, new_state),
                        NewSuccesses(cur, new_state))

\* The branch taken when should_alert is False.
SilentUpdate(tbl, t, new_state, now) ==
    LET cur == tbl[t]
        bad_since == IF IsBad(new_state) /\ Falsy(cur.bad_since_ts) THEN now
                     ELSE IF new_state = "OK" THEN None
                     ELSE cur.bad_since_ts
    IN UpdateAlertState(tbl, t, new_state, bad_since, cur.last_sent_ts,
                        NewFailures(cur, new_state),
                        NewSuccesses(cur, new_state))

\* AlertManager.process_check_result as a function of the table and its
\* inputs (send_result is what _send_alert returns if it is called): the new
\* table, the alert type attempted (NoAlert if none) and the value returned.
ProcessCheckResult(tbl, t, new_state, prof, now, send_result) ==
    IF ~HasAlertState(tbl, t)
    THEN [table |-> FirstCheck(tbl, t, new_state, now),
          alert |-> NoAlert, sent |-> FALSE]
    ELSE LET alert_type == AlertType(tbl[t], new_state, prof)
             success == send_result
         IN IF alert_type # NoAlert
            THEN [table |-> AlertedUpdate(tbl, t, new_state, now, success),
                  alert |-> alert_type, sent |-> success]
            ELSE [table |-> SilentUpdate(tbl, t, new_state, now),
                  alert |-> NoAlert, sent |-> FALSE]

----------------------------------------------------------------------------
(* Initial states: empty database, a configuration read from targets.yml *)

Profiles ==
    [fail_count_to_alert : 1..MaxCount,
     recover_count : 1..MaxCount,
     cooldown_sec : {0, DefaultCooldownSec}]

DefaultProfile ==
    [fail_count_to_alert |-> DefaultFailCount,
     recover_count |-> DefaultRecoverCount,
     cooldown_sec |-> DefaultCooldownSec]

NoEval ==
    [state |-> "NONE", alert |-> NoAlert, sent |-> FALSE, had_prior |-> FALSE,
     cool |-> TRUE]

NoRun ==
    [state |-> "NONE", base |-> "NONE", len |-> 0, alerts |-> 0,
     first_alert |-> 0, first_kind |-> NoAlert, cool |-> TRUE,
     delivered |-> TRUE]

\* The locals of a check_page call that was not submitted.
NoRow ==
    [last_state |-> "NONE", bad_since_ts |-> None, last_sent_ts |-> None,
     consecutive_failures |-> 0, consecutive_successes |-> 0]

\* The locals of check_single_site before the bot is asked for a check; pre
\* and cycle are logs: the row stored before the first of the bot and the
\* cycle's check_page of the same page read it, and cycle_now at that read.
IdleBot ==
    [pc |-> "idle", page |-> 0, state |-> "NONE", had_row |-> FALSE,
     cur |-> NoRow, alert |-> NoAlert, success |-> FALSE, pre |-> NoRow,
     cycle |-> None]

IdleWorker ==
    [pc |-> "idle", metrics |-> NoMetrics, state |-> "NONE", had_row |-> FALSE,
     cur |-> NoRow, alert |-> NoAlert, success |-> FALSE]

InitBase ==
    /\ clock = 1
    /\ workers = [i \in PageIds |-> IdleWorker]
    /\ checked = NoCheck
    /\ bot = IdleBot
    /\ prunes = 0
    /\ checks = {}
    /\ alert_state = [x \in {} |-> 0]
    /\ phase = "idle"
    /\ cycle_now = None
    /\ due = <<>>
    /\ pages_to_check = <<>>
    /\ pending = {}
    /\ bot_checks = 0
    /\ evals = 0
    /\ last_eval = NoEval
    /\ run = NoRun
    /\ script = [on |-> TRUE, alerts |-> <<>>]
    /\ delivered_at = [t \in TargetIds |-> None]
    /\ probed = {}
    /\ last_probe_cycle = [i \in PageIds |-> None]

InitEval ==
    /\ InitBase
    /\ config_pages = Pages
    /\ max_checks_per_run = MaxChecksPerRun
    /\ max_workers = MaxWorkers
    /\ ttfb_limits = DefaultTtfbLimits
    /\ profile \in Profiles
    /\ retention_days = DefaultRetentionDays
    /\ hash_of = [t \in TargetIds |-> 0]

----------------------------------------------------------------------------
(* The clock advances between any two steps of the orchestrator. *)

Tick ==
    /\ clock < MaxClock
    /\ clock' = clock + 1
    /\ UNCHANGED <<config_vars, checks,
                   alert_state, phase, cycle_now, due, pages_to_check, pending,
                   bot_checks, evals, last_eval, run, script, delivered_at,
                   probed, last_probe_cycle, workers, checked, bot, prunes>>

----------------------------------------------------------------------------
(* monitor.py: scheduling policy and run orchestrator *)

StableHash(t) == hash_of[t]

\* should_check_page taking the offset itself as the last probe time of a
\* page without a recorded probe.
ShouldCheckPageFixedOffset(page, tbl, now) ==
    LET stored == GetLastCheckTime(tbl, page.target_id)
        last_check == IF stored = None
                      THEN StableHash(page.target_id) % page.every_sec
                      ELSE stored
        time_since_last == now - last_check
    IN time_since_last >= page.every_sec

\* should_check_page with > in place of >= in its last line.
ShouldCheckPageStrict(page, tbl, now) ==
    LET stored == GetLastCheckTime(tbl, page.target_id)
        last_check == IF stored = None
                      THEN now - (StableHash(page.target_id) % page.every_sec)
                      ELSE stored
        time_since_last == now - last_check
    IN time_since_last > page.every_sec

\* should_check_page
ShouldCheckPage(page, tbl, now) ==
    LET stored == GetLastCheckTime(tbl, page.target_id)
        last_check == IF stored = None
                      THEN now - (StableHash(page.target_id) % page.every_sec)
                      ELSE stored
        time_since_last == now - last_check
    IN time_since_last >= page.every_sec

\* The pages of Config.pages that are due, in configuration order.
RECURSIVE DueFrom(_, _, _)
DueFrom(i, tbl, now) ==
    IF i > Len(config_pages) THEN <<>>
    ELSE (IF ShouldCheckPage(config_pages[i], tbl, now) THEN <<i>> ELSE <<>>)
         \o DueFrom(i + 1, tbl, now)

DuePages(tbl, now) == DueFrom(1, tbl, now)

\* CapPages keeping the last max_checks pages instead of the first.
CapPagesFromEnd(pages, max_checks) ==
    IF Len(pages) > max_checks
    THEN SubSeq(pages, Len(pages) - max_checks + 1, Len(pages))
    ELSE pages

\* pages_to_check[:max_checks_per_run]
CapPages(pages, max_checks) ==
    IF Len(pages) > max_checks THEN SubSeq(pages, 1, max_checks) ELSE pages

Range(seq) == {seq[k] : k \in 1..Len(seq)}

\* main, from its start to the submission of the futures, when some page is
\* due.  A cycle starts after the previous one has ended, at a later time.
SubmitDuePages ==
    /\ phase = "idle"
    /\ clock > cycle_now
    /\ DuePages(checks, clock) # <<>>
    /\ cycle_now' = clock
    /\ due' = DuePages(checks, clock)
    /\ pages_to_check' = CapPages(DuePages(checks, clock), max_checks_per_run)
    /\ pending' = Range(CapPages(DuePages(checks, clock), max_checks_per_run))
    /\ phase' = "checking"
    /\ prunes' = 0
    /\ UNCHANGED <<clock, config_vars, checks,
                   alert_state, bot_checks, evals, last_eval, run, script,
                   delivered_at, probed, last_probe_cycle, checked, bot>>

\* The same with every check_page taken as one step (CheckPage below).
StartCycle == SubmitDuePages /\ UNCHANGED workers

\* main when no page is due: cleanup, close and return.
EmptyCycle ==
    /\ phase = "idle"
    /\ clock > cycle_now
    /\ DuePages(checks, clock) = <<>>
    /\ cycle_now' = clock
    /\ due' = <<>>
    /\ pages_to_check' = <<>>
    /\ checks' = CleanupOldChecks(checks, retention_days, clock)
    /\ prunes' = 1
    /\ UNCHANGED <<clock, config_vars,
                   alert_state, phase, pending, bot_checks, evals, last_eval,
                   run, script, delivered_at, probed, last_probe_cycle,
                   workers, checked, bot>>

\* The probe, save_check and process_check_result of check_page and of the
\* bot's check_single_site, for page i with the probe classified new_state.
ProbeAndEvaluate(i, new_state, send_result) ==
    LET t == config_pages[i].target_id
        r == ProcessCheckResult(alert_state, t, new_state, profile, clock,
                                send_result)
    IN /\ checks' = SaveCheck(checks, t, clock)
       /\ alert_state' = r.table
       /\ delivered_at' = IF r.sent THEN [delivered_at EXCEPT ![t] = clock]
                          ELSE delivered_at
       /\ probed' = probed \cup {i}

\* One future of the pool: check_page for a submitted page.
CheckPage ==
    /\ phase = "checking"
    /\ \E i \in pending, new_state \in HealthStates, send_result \in SendResults :
         /\ ProbeAndEvaluate(i, new_state, send_result)
         /\ pending' = pending \ {i}
         /\ last_probe_cycle' = [last_probe_cycle EXCEPT ![i] = cycle_now]
    /\ UNCHANGED <<clock, config_vars, phase,
                   cycle_now, due, pages_to_check, bot_checks, evals,
                   last_eval, run, script, workers, checked, bot, prunes>>

\* main after the pool has finished: cleanup and close.
FinishCycle ==
    /\ phase = "checking"
    /\ pending = {}
    /\ checks' = CleanupOldChecks(checks, retention_days, clock)
    /\ phase' = "idle"
    /\ prunes' = prunes + 1
    /\ UNCHANGED <<clock, config_vars,
                   alert_state, cycle_now, due, pages_to_check, pending,
                   bot_checks, evals, last_eval, run, script, delivered_at,
                   probed, last_probe_cycle, workers, checked, bot>>

\* TelegramBot.check_single_site for a configured page, at any time.
BotCheck ==
    /\ bot_checks < MaxBotChecks
    /\ \E i \in PageIds, new_state \in HealthStates, send_result \in SendResults :
         ProbeAndEvaluate(i, new_state, send_result)
    /\ bot_checks' = bot_checks + 1
    /\ UNCHANGED <<clock, config_vars, phase,
                   cycle_now, due, pages_to_check, pending, evals, last_eval,
                   run, script, last_probe_cycle, workers, checked, bot, prunes>>

Init ==
    /\ InitBase
    /\ config_pages = Pages
    /\ max_checks_per_run = MaxChecksPerRun
    /\ max_workers = MaxWorkers
    /\ ttfb_limits = DefaultTtfbLimits
    /\ profile = DefaultProfile
    /\ retention_days \in {0, DefaultRetentionDays}
    /\ hash_of \in [TargetIds -> 0..MaxHash]

Next == Tick \/ StartCycle \/ EmptyCycle \/ CheckPage \/ FinishCycle \/ BotCheck

Spec == Init /\ [][Next]_vars

----------------------------------------------------------------------------
(* monitor.py: the worker pool of main, check_page taken statement by        *)
(* statement.  A worker is at "submitted" until a thread of the pool has run *)
(* its probe, then at "probed", "saved" (save_check), "read"                *)
(* (get_alert_state and the if/elif chain), "notified" (_send_alert) and    *)
(* "done" (update_alert_state), or at "raised" when a statement raised.     *)

\* A targets.yml that lists the page home of site twice.
PagesDup ==
    << [target_id |-> "site:home", every_sec |-> EverySecA],
       [target_id |-> "site:home", every_sec |-> EverySecB] >>

\* A probe that answers at once with the expected status and marker.
FineMetrics ==
    [error |-> FALSE, http_code |-> ExpectedHttp, body |-> "WITH_TOKEN",
     ttfb |-> 0]

ProbeOutcomes == {TimeoutMetrics, FineMetrics}

Running == {"probed", "saved", "read", "notified"}

InFlight == {"submitted"} \cup Running

\* The arguments process_check_result passes to update_alert_state, computed
\* from the row cur it read (had_row false when there was none).
UpdateArgs(had_row, cur, alert, new_state, now, success) ==
    IF ~had_row
    THEN [bad_since_ts |-> IF IsBad(new_state) THEN now ELSE None,
          last_sent_ts |-> None,
          consecutive_failures |-> IF IsBad(new_state) THEN 1 ELSE 0,
          consecutive_successes |-> IF IsBad(new_state) THEN 0 ELSE 1]
    ELSE IF alert # NoAlert
    THEN [bad_since_ts |-> IF IsBad(new_state)
                           THEN (IF Falsy(cur.bad_since_ts) THEN now
                                 ELSE cur.bad_since_ts)
                           ELSE None,
          last_sent_ts |-> IF success THEN now ELSE cur.last_sent_ts,
          consecutive_failures |-> NewFailures(cur, new_state),
          consecutive_successes |-> NewSuccesses(cur, new_state)]
    ELSE [bad_since_ts |-> IF IsBad(new_state) /\ Falsy(cur.bad_since_ts) THEN now
                           ELSE IF new_state = "OK" THEN None
                           ELSE cur.bad_since_ts,
          last_sent_ts |-> cur.last_sent_ts,
          consecutive_failures |-> NewFailures(cur, new_state),
          consecutive_successes |-> NewSuccesses(cur, new_state)]

\* A database left by the bot's check_all_sites at time 1, which found every
\* page DOWN; the monitor is then run by cron.
InitPool ==
    /\ clock = 1
    /\ config_pages \in {Pages, PagesDup}
    /\ max_checks_per_run \in 1..MaxChecksPerRun
    /\ max_workers \in 1..MaxWorkers
    /\ ttfb_limits = DefaultTtfbLimits
    /\ profile = DefaultProfile
    /\ retention_days \in {0, DefaultRetentionDays}
    /\ hash_of = [t \in TargetIds |-> 0]
    /\ checks = {[target_id |-> config_pages[i].target_id, timestamp |-> 1] :
                   i \in PageIds}
    /\ alert_state =
         [t \in {config_pages[i].target_id : i \in PageIds} |->
            [last_state |-> "DOWN", bad_since_ts |-> 1, last_sent_ts |-> None,
             consecutive_failures |-> 1, consecutive_successes |-> 0]]
    /\ phase = "idle"
    /\ cycle_now = None
    /\ due = <<>>
    /\ pages_to_check = <<>>
    /\ pending = {}
    /\ bot_checks = 1
    /\ evals = 0
    /\ last_eval = NoEval
    /\ run = NoRun
    /\ script = [on |-> TRUE, alerts |-> <<>>]
    /\ delivered_at = [t \in TargetIds |-> None]
    /\ probed = PageIds
    /\ last_probe_cycle = [i \in PageIds |-> None]
    /\ workers = [i \in PageIds |-> IdleWorker]
    /\ checked = NoCheck
    /\ bot = IdleBot
    /\ prunes = 0

\* Time passes between two runs of the monitor and while a probe is awaited;
\* the statements after the probe are fast.
PoolTick ==
    /\ phase = "idle" \/ \E i \in PageIds : workers[i].pc = "submitted"
    /\ Tick

\* True when a thread of the pool is free to take a future.
ThreadFree ==
    Cardinality({j \in PageIds : workers[j].pc \in Running}) < max_workers

\* main up to the submission of the futures (monitor.py:119-151).
StartPool ==
    /\ SubmitDuePages
    /\ workers' = [i \in PageIds |->
                     IF i \in Range(CapPages(DuePages(checks, clock),
                                             max_checks_per_run))
                     THEN [IdleWorker EXCEPT !.pc = "submitted"]
                     ELSE IdleWorker]

\* What a step of a worker leaves alone besides the tables it writes.
WorkerFrame ==
    UNCHANGED <<clock, config_vars, phase, cycle_now, due, pages_to_check,
                bot_checks, evals, last_eval, run, script, delivered_at,
                probed, last_probe_cycle, checked, bot, prunes>>

\* check_page, monitor.py:46-48: a thread of the pool takes the future and
\* checker.check() returns.
Probe(i) ==
    /\ workers[i].pc = "submitted"
    /\ ThreadFree
    /\ \E m \in ProbeOutcomes :
         workers' = [workers EXCEPT ![i].pc = "probed",
                                    ![i].metrics = m,
                                    ![i].state = Check(m, ttfb_limits).state]
    /\ UNCHANGED <<checks, alert_state, pending>>
    /\ WorkerFrame

\* SavedChecks dropping the observation of a probe that timed out.
SavedChecksUnlessTimeout(tbl, i, now) ==
    IF workers[i].metrics = TimeoutMetrics THEN tbl
    ELSE SaveCheck(tbl, config_pages[i].target_id, now)

\* The table checks after check_page has saved the result of page i.
SavedChecks(tbl, i, now) == SaveCheck(tbl, config_pages[i].target_id, now)

\* check_page, monitor.py:50-72: db.save_check(result).
Save(i) ==
    /\ workers[i].pc = "probed"
    /\ checks' = SavedChecks(checks, i, clock)
    /\ workers' = [workers EXCEPT ![i].pc = "saved"]
    /\ UNCHANGED <<alert_state, pending>>
    /\ WorkerFrame

\* process_check_result, alerts.py:37-101: get_alert_state and the decision.
Read(i) ==
    LET t == config_pages[i].target_id
        had == HasAlertState(alert_state, t)
    IN /\ workers[i].pc = "saved"
       /\ workers' = [workers EXCEPT
                        ![i].pc = "read",
                        ![i].had_row = had,
                        ![i].cur = IF had THEN alert_state[t] ELSE NoRow,
                        ![i].alert = IF had
                                     THEN AlertType(alert_state[t],
                                                    workers[i].state, profile)
                                     ELSE NoAlert]
       /\ UNCHANGED <<checks, alert_state, pending>>
       /\ WorkerFrame

\* process_check_result, alerts.py:104-105: _send_alert returns.
Notify(i) ==
    /\ workers[i].pc = "read"
    /\ workers[i].alert # NoAlert
    /\ \E send_result \in SendResults :
         workers' = [workers EXCEPT ![i].pc = "notified",
                                    ![i].success = send_result]
    /\ UNCHANGED <<checks, alert_state, pending>>
    /\ WorkerFrame

\* process_check_result, the update_alert_state of whichever branch was
\* taken (alerts.py:43-49, 111-118, 129-136); check_page returns and the
\* future is done.
Write(i) ==
    LET w == workers[i]
        a == UpdateArgs(w.had_row, w.cur, w.alert, w.state, clock, w.success)
    IN /\ \/ w.pc = "read" /\ w.alert = NoAlert
          \/ w.pc = "notified"
       /\ alert_state' = UpdateAlertState(alert_state, config_pages[i].target_id,
                                          w.state, a.bad_since_ts,
                                          a.last_sent_ts,
                                          a.consecutive_failures,
                                          a.consecutive_successes)
       /\ workers' = [workers EXCEPT ![i].pc = "done"]
       /\ pending' = pending \ {i}
       /\ UNCHANGED checks
       /\ WorkerFrame

\* AfterRaise ending every future that is still in flight.
AfterRaiseEndsAll(ws, i) ==
    [j \in PageIds |->
       IF ws[j].pc \in InFlight THEN [ws[j] EXCEPT !.pc = "raised"] ELSE ws[j]]

\* The workers after the future of page i has ended with an exception.
AfterRaise(ws, i) == [ws EXCEPT ![i].pc = "raised"]

\* The next statement of a worker raises: the future ends with the
\* exception, which main catches at future.result() (monitor.py:155-170).
Raise(i) ==
    /\ \/ workers[i].pc \in Running
       \/ workers[i].pc = "submitted" /\ ThreadFree
    /\ workers' = AfterRaise(workers, i)
    /\ pending' = pending \ {i}
    /\ UNCHANGED <<checks, alert_state>>
    /\ WorkerFrame

WorkerStep ==
    \E i \in PageIds : Probe(i) \/ Save(i) \/ Read(i) \/ Notify(i) \/ Write(i)

WorkerRaise == \E i \in PageIds : Raise(i)

NextPool ==
    PoolTick \/ StartPool \/ EmptyCycle \/ WorkerStep \/ WorkerRaise \/ FinishCycle

SpecPool == InitPool /\ [][NextPool]_vars

\* The pool runs every future it was given and each statement of check_page
\* returns or raises in bounded time: curl runs under --max-time and
\* subprocess.run under timeout (checker.py:93-110), requests.post under
\* timeout=10 (alerts.py:192); main leaves the with block once every future
\* has ended.
SpecPoolFair ==
    SpecPool /\ WF_vars(WorkerStep) /\ WF_vars(FinishCycle)

----------------------------------------------------------------------------
(* telegram_bot.py: one check_single_site of the bot, statement by          *)
(* statement, while cron runs the monitor on the same database.             *)

InitRace ==
    /\ InitPool
    /\ config_pages = Pages
    /\ max_checks_per_run = MaxChecksPerRun
    /\ max_workers = MaxWorkers
    /\ retention_days = DefaultRetentionDays

\* What a step of the bot leaves alone besides bot and the tables it writes.
BotFrame ==
    UNCHANGED <<clock, config_vars, phase, cycle_now, due, pages_to_check,
                pending, bot_checks, evals, last_eval, run, script,
                delivered_at, probed, last_probe_cycle, workers, checked,
                prunes>>

\* check_single_site, telegram_bot.py:114-152: the page is found and
\* checker.check() returns.
BotProbe ==
    /\ bot.pc = "idle"
    /\ \E i \in PageIds, m \in ProbeOutcomes :
         bot' = [bot EXCEPT !.pc = "probed", !.page = i,
                            !.state = Check(m, ttfb_limits).state]
    /\ UNCHANGED <<checks, alert_state>>
    /\ BotFrame

\* check_single_site, telegram_bot.py:154-165: self.db.save_check(result).
BotSave ==
    /\ bot.pc = "probed"
    /\ checks' = SaveCheck(checks, config_pages[bot.page].target_id, clock)
    /\ bot' = [bot EXCEPT !.pc = "saved"]
    /\ UNCHANGED alert_state
    /\ BotFrame

\* process_check_result called at telegram_bot.py:176, alerts.py:37-101:
\* get_alert_state and the decision.
BotRead ==
    LET t == config_pages[bot.page].target_id
        had == HasAlertState(alert_state, t)
        row == IF had THEN alert_state[t] ELSE NoRow
        w == workers[bot.page]
    IN /\ bot.pc = "saved"
       /\ bot' = [bot EXCEPT
                    !.pc = "read",
                    !.had_row = had,
                    !.cur = row,
                    !.alert = IF had THEN AlertType(row, bot.state, profile)
                              ELSE NoAlert,
                    !.pre = IF w.pc \in {"read", "notified", "done"}
                            THEN w.cur ELSE row,
                    !.cycle = cycle_now]
       /\ UNCHANGED <<checks, alert_state>>
       /\ BotFrame

\* alerts.py:104-105 in the bot: _send_alert returns.
BotNotify ==
    /\ bot.pc = "read"
    /\ bot.alert # NoAlert
    /\ \E send_result \in SendResults :
         bot' = [bot EXCEPT !.pc = "notified", !.success = send_result]
    /\ UNCHANGED <<checks, alert_state>>
    /\ BotFrame

\* The update_alert_state of the bot's process_check_result.
BotWrite ==
    LET a == UpdateArgs(bot.had_row, bot.cur, bot.alert, bot.state, clock,
                        bot.success)
    IN /\ \/ bot.pc = "read" /\ bot.alert = NoAlert
          \/ bot.pc = "notified"
       /\ alert_state' = UpdateAlertState(alert_state,
                                          config_pages[bot.page].target_id,
                                          bot.state, a.bad_since_ts,
                                          a.last_sent_ts,
                                          a.consecutive_failures,
                                          a.consecutive_successes)
       /\ bot' = [bot EXCEPT !.pc = "done"]
       /\ UNCHANGED checks
       /\ BotFrame

BotStep == BotProbe \/ BotSave \/ BotRead \/ BotNotify \/ BotWrite

NextRace ==
    PoolTick \/ StartPool \/ EmptyCycle \/ WorkerStep \/ FinishCycle \/ BotStep

SpecRace == InitRace /\ [][NextRace]_vars

----------------------------------------------------------------------------
(* monitor.py run from cron without end: main once a second, time without   *)
(* bound.  Every test of the program reads a difference now - timestamp, so  *)
(* the clock is kept at Horizon and a second that passes moves every stored  *)
(* timestamp one second back; a timestamp older than every interval stays at *)
(* 1.                                                                        *)

\* Three pages of one interval, longer than the second between two runs.
PagesThree ==
    << [target_id |-> "site:home", every_sec |-> EverySecA],
       [target_id |-> "site:api",  every_sec |-> EverySecA],
       [target_id |-> "site:docs", every_sec |-> EverySecA] >>

ThreeIds == {PagesThree[i].target_id : i \in DOMAIN PagesThree}

Horizon == EverySecA + 1

\* A timestamp one second further in the past.
Earlier(ts) == IF ts = None THEN None ELSE MaxOf({ts - 1, 1})

\* The database seeded as in InitPool, every page due at the first run.
InitCron ==
    /\ clock = Horizon
    /\ config_pages = PagesThree
    /\ max_checks_per_run \in 1..Len(PagesThree)
    /\ max_workers = MaxWorkers
    /\ ttfb_limits = DefaultTtfbLimits
    /\ profile = DefaultProfile
    /\ retention_days = DefaultRetentionDays
    /\ hash_of = [t \in ThreeIds |-> 0]
    /\ checks = {[target_id |-> t, timestamp |-> 1] : t \in ThreeIds}
    /\ alert_state =
         [t \in ThreeIds |->
            [last_state |-> "DOWN", bad_since_ts |-> 1, last_sent_ts |-> None,
             consecutive_failures |-> 1, consecutive_successes |-> 0]]
    /\ phase = "idle"
    /\ cycle_now = None
    /\ due = <<>>
    /\ pages_to_check = <<>>
    /\ pending = {}
    /\ bot_checks = 1
    /\ evals = 0
    /\ last_eval = NoEval
    /\ run = NoRun
    /\ script = [on |-> TRUE, alerts |-> <<>>]
    /\ delivered_at = [t \in ThreeIds |-> None]
    /\ probed = DOMAIN PagesThree
    /\ last_probe_cycle = [i \in DOMAIN PagesThree |-> None]
    /\ workers = [i \in PageIds |-> IdleWorker]
    /\ checked = NoCheck
    /\ bot = IdleBot
    /\ prunes = 0

\* A second passes after main has returned.
CronTick ==
    /\ phase = "idle"
    /\ cycle_now = clock
    /\ cycle_now' = clock - 1
    /\ checks' = {[c EXCEPT !.timestamp = Earlier(c.timestamp)] : c \in checks}
    /\ alert_state' =
         [t \in DOMAIN alert_state |->
            [alert_state[t] EXCEPT
               !.bad_since_ts = Earlier(alert_state[t].bad_since_ts),
               !.last_sent_ts = Earlier(alert_state[t].last_sent_ts)]]
    /\ delivered_at' = [t \in DOMAIN delivered_at |-> Earlier(delivered_at[t])]
    /\ last_probe_cycle' =
         [i \in DOMAIN last_probe_cycle |-> Earlier(last_probe_cycle[i])]
    /\ UNCHANGED <<clock, config_vars, phase, due, pages_to_check, pending,
                   bot_checks, evals, last_eval, run, script, probed, workers,
                   checked, bot, prunes>>

\* CheckPage while the counters of the stored rows are within MaxCount.
CronCheckPage ==
    /\ CheckPage
    /\ \A t \in DOMAIN alert_state' :
         /\ alert_state'[t].consecutive_failures <= MaxCount
         /\ alert_state'[t].consecutive_successes <= MaxCount

NextCron == CronTick \/ StartCycle \/ EmptyCycle \/ CronCheckPage \/ FinishCycle

\* cron starts main every second and main runs to its end.
SpecCron == InitCron /\ [][NextCron]_vars /\ WF_vars(NextCron)

----------------------------------------------------------------------------
(* The stream of evaluations of one target *)

\* True when no delivered notification of t is younger than the cooldown.
CooldownElapsed(t, now) ==
    delivered_at[t] = None \/ now - delivered_at[t] >= profile.cooldown_sec

\* The time between two evaluations: a second, or a whole cooldown.
EvalGaps == {1, profile.cooldown_sec} \ {0}

\* The health sequence of the end-to-end example.
ExampleHealths == <<"OK", "DOWN", "DOWN", "OK", "OK">>

\* The log of the current run of equal observations, after an evaluation that
\* observed new_state from the table tbl, attempted r.alert and returned r.sent.
\* base is the last_state stored when the run began (ABSENT without a row).
RunAfter(tbl, t, new_state, r, cool) ==
    LET attempted == r.alert # NoAlert
        start == [state |-> new_state,
                  base |-> IF HasAlertState(tbl, t) THEN tbl[t].last_state
                           ELSE "ABSENT",
                  len |-> 0, alerts |-> 0, first_alert |-> 0,
                  first_kind |-> NoAlert, cool |-> TRUE, delivered |-> TRUE]
        old == IF run.state = new_state THEN run ELSE start
    IN [state |-> old.state,
        base |-> old.base,
        len |-> old.len + 1,
        alerts |-> old.alerts + (IF attempted THEN 1 ELSE 0),
        first_alert |-> IF attempted /\ old.alerts = 0 THEN old.len + 1
                        ELSE old.first_alert,
        first_kind |-> IF attempted /\ old.alerts = 0 THEN r.alert
                       ELSE old.first_kind,
        cool |-> old.cool /\ cool,
        delivered |-> old.delivered /\ (attempted => r.sent)]

\* The log of the example: stays on while the observations follow
\* ExampleHealths from the first evaluation and every attempt is delivered.
ScriptAfter(new_state, r) ==
    LET n == Len(script.alerts) IN
    IF /\ script.on
       /\ n < Len(ExampleHealths)
       /\ new_state = ExampleHealths[n + 1]
       /\ (r.alert # NoAlert => r.sent)
    THEN [on |-> TRUE, alerts |-> Append(script.alerts, r.alert)]
    ELSE [on |-> FALSE, alerts |-> <<>>]

\* One call of process_check_result for EvalTarget, some time after the
\* previous one, with an arbitrary health and an arbitrary result of
\* _send_alert.
Evaluate ==
    /\ evals < MaxEvals
    /\ \E d \in EvalGaps, new_state \in HealthStates, send_result \in SendResults :
         LET t == EvalTarget
             now == clock + d
             r == ProcessCheckResult(alert_state, t, new_state, profile, now,
                                     send_result)
             cool == CooldownElapsed(t, now)
         IN /\ clock' = now
            /\ alert_state' = r.table
            /\ delivered_at' = IF r.sent THEN [delivered_at EXCEPT ![t] = now]
                               ELSE delivered_at
            /\ last_eval' = [state |-> new_state, alert |-> r.alert,
                             sent |-> r.sent,
                             had_prior |-> HasAlertState(alert_state, t),
                             cool |-> cool]
            /\ run' = RunAfter(alert_state, t, new_state, r, cool)
            /\ script' = ScriptAfter(new_state, r)
    /\ evals' = evals + 1
    /\ UNCHANGED <<config_vars, checks,
                   phase, cycle_now, due, pages_to_check, pending, bot_checks,
                   probed, last_probe_cycle, workers, checked, bot, prunes>>

NextEval == Evaluate

SpecEval == InitEval /\ [][NextEval]_vars

\* The rows of alert_state that evaluations store: one counter is zero, the
\* failures count exactly while last_state is bad, and a bad row has its
\* bad_since_ts.
StoredRows ==
    {row \in [last_state : HealthStates,
              bad_since_ts : {None, 1},
              last_sent_ts : {None, 1},
              consecutive_failures : 0..MaxCount,
              consecutive_successes : 0..MaxCount] :
       /\ (row.consecutive_failures = 0) # (row.consecutive_successes = 0)
       /\ (row.consecutive_failures > 0) <=> IsBad(row.last_state)
       /\ IsBad(row.last_state) => row.bad_since_ts # None}

\* One call of process_check_result on any stored row under any profile.
InitDecide ==
    /\ clock = 1
    /\ config_pages = Pages
    /\ max_checks_per_run = MaxChecksPerRun
    /\ max_workers = MaxWorkers
    /\ ttfb_limits = DefaultTtfbLimits
    /\ profile \in Profiles
    /\ retention_days = DefaultRetentionDays
    /\ hash_of = [t \in TargetIds |-> 0]
    /\ checks = {[target_id |-> EvalTarget, timestamp |-> 1]}
    /\ alert_state \in [{EvalTarget} -> StoredRows]
    /\ phase = "idle"
    /\ cycle_now = None
    /\ due = <<>>
    /\ pages_to_check = <<>>
    /\ pending = {}
    /\ bot_checks = 0
    /\ evals = MaxEvals - 1
    /\ last_eval = NoEval
    /\ run = NoRun
    /\ script = [on |-> FALSE, alerts |-> <<>>]
    /\ delivered_at = [t \in TargetIds |->
                         IF t = EvalTarget
                         THEN alert_state[EvalTarget].last_sent_ts ELSE None]
    /\ probed = {1}
    /\ last_probe_cycle = [i \in PageIds |-> None]
    /\ workers = [i \in PageIds |-> IdleWorker]
    /\ checked = NoCheck
    /\ bot = IdleBot
    /\ prunes = 0

SpecDecide == InitDecide /\ [][NextEval]_vars

----------------------------------------------------------------------------
(* The classifier on its own: any metrics under any pair of limits *)

TtfbLimits == [warn_ttfb_sec : 1..MaxTtfb, crit_ttfb_sec : 1..MaxTtfb]

InitCheck ==
    /\ InitBase
    /\ config_pages = Pages
    /\ max_checks_per_run = MaxChecksPerRun
    /\ max_workers = MaxWorkers
    /\ ttfb_limits \in TtfbLimits
    /\ profile = DefaultProfile
    /\ retention_days = DefaultRetentionDays
    /\ hash_of = [t \in TargetIds |-> 0]

\* One call of PageChecker.check, _run_curl returning any metrics.
RunCheck ==
    /\ \E m \in Metrics :
         checked' = [metrics |-> m, ok |-> Check(m, ttfb_limits).ok,
                     state |-> Check(m, ttfb_limits).state]
    /\ UNCHANGED <<clock, config_vars, checks,
                   alert_state, phase, cycle_now, due, pages_to_check, pending,
                   bot_checks, evals, last_eval, run, script, delivered_at,
                   probed, last_probe_cycle, workers, bot, prunes>>

NextCheck == RunCheck

SpecCheck == InitCheck /\ [][NextCheck]_vars

\* C13: check classifies DOWN exactly when the probe has an error, or the
\* http status is outside expect_http, or the marker is absent from the body,
\* or ttfb is unavailable; otherwise SLOW exactly when ttfb >= warn_ttfb_sec;
\* otherwise OK - for every pair of limits, crit_ttfb_sec < warn_ttfb_sec
\* included.
C13_Classification ==
    checked.state # "NONE"
    => LET m == checked.metrics
           down == \/ m.error
                   \/ m.http_code # ExpectedHttp
                   \/ m.body # "WITH_TOKEN"
                   \/ m.ttfb = None
       IN checked.state =
            IF down THEN "DOWN"
            ELSE IF m.ttfb >= ttfb_limits.warn_ttfb_sec THEN "SLOW"
            ELSE "OK"

----------------------------------------------------------------------------
(* Properties of the evaluation stream, checked under SpecEval *)

EvalStep == evals' = evals + 1

\* C1: if a notification was delivered at time t, no evaluation at a time
\* earlier than t + cooldown attempts another notification for that target.
C1_NoDoubleNotifyWithinCooldown ==
    ~last_eval.cool => last_eval.alert = NoAlert

\* C2: with fail_count_to_alert = 2, recover_count = 2, cooldown = 300, no
\* prior state and every delivery succeeding, the observations OK, DOWN, DOWN,
\* OK, OK yield the notifications none, none, BECAME_DOWN, none, RECOVERED.
C2_EndToEndExample ==
    (profile = DefaultProfile /\ script.on
        /\ Len(script.alerts) = Len(ExampleHealths))
    => script.alerts = <<NoAlert, NoAlert, "DOWN", NoAlert, "RECOVERED">>

\* C3: from a stored state whose last_state is OK, with the cooldown elapsed,
\* a run of DOWN observations attempts no notification on observations
\* 1..k-1 and its first one, a DOWN alert, on observation k =
\* fail_count_to_alert.
C3_OnsetLatency ==
    (run.state = "DOWN" /\ run.base = "OK" /\ run.cool)
    => IF run.len < profile.fail_count_to_alert
       THEN run.alerts = 0
       ELSE run.first_alert = profile.fail_count_to_alert
            /\ run.first_kind = "DOWN"

\* C4: from a stored state whose last_state is SLOW or DOWN, with the cooldown
\* elapsed and deliveries succeeding, a run of OK observations attempts no
\* notification on observations 1..r-1 and a RECOVERED alert on observation
\* r = recover_count.
C4_RecoveryLatency ==
    (run.state = "OK" /\ IsBad(run.base) /\ run.cool /\ run.delivered)
    => IF run.len < profile.recover_count
       THEN run.alerts = 0
       ELSE run.first_alert = profile.recover_count
            /\ run.first_kind = "RECOVERED"

\* C5: an evaluation of a target without a stored row attempts no
\* notification and delivers none; it creates the row with counters (1,0) and
\* bad_since_ts = now for a bad health, (0,1) and no bad_since_ts for OK, and
\* no last_sent_ts.
C5_StartupSuppression ==
    [][(EvalStep /\ ~HasAlertState(alert_state, EvalTarget))
       => LET h == last_eval'.state IN
          /\ last_eval'.alert = NoAlert
          /\ ~last_eval'.sent
          /\ delivered_at' = delivered_at
          /\ HasAlertState(alert_state', EvalTarget)
          /\ alert_state'[EvalTarget] =
               [last_state |-> h,
                bad_since_ts |-> IF h \in {"SLOW", "DOWN"} THEN clock' ELSE None,
                last_sent_ts |-> None,
                consecutive_failures |-> IF h \in {"SLOW", "DOWN"} THEN 1 ELSE 0,
                consecutive_successes |-> IF h \in {"SLOW", "DOWN"} THEN 0 ELSE 1]
      ]_vars

C5_Witness ==
    /\ evals = 1
    /\ ~last_eval.had_prior
    /\ last_eval.state = "SLOW"
    /\ alert_state[EvalTarget].bad_since_ts = clock

\* The number of the evaluation on which a target first seen bad alerts.
MidOutageAlertAt ==
    IF profile.fail_count_to_alert >= 2 THEN profile.fail_count_to_alert ELSE 2

\* C6 as stated: a target whose first-ever observation is bad and whose
\* health stays the same for k = fail_count_to_alert evaluations, deliveries
\* succeeding, has attempted exactly one notification from the k-th
\* evaluation on.
C6_MidOutageOnset_Original ==
    (run.base = "ABSENT" /\ IsBad(run.state) /\ run.delivered
        /\ run.len >= profile.fail_count_to_alert)
    => run.alerts = 1

\* C6 amended: a target whose first-ever observation is bad and whose health
\* stays the same, deliveries succeeding, attempts no notification before
\* evaluation max(k, 2) and exactly one, of the kind of its health, on
\* evaluation max(k, 2); no second one while the same health continues.
C6_MidOutageOnset ==
    (run.base = "ABSENT" /\ IsBad(run.state) /\ run.delivered)
    => IF run.len < MidOutageAlertAt
       THEN run.alerts = 0
       ELSE /\ run.alerts = 1
            /\ run.first_alert = MidOutageAlertAt
            /\ run.first_kind = run.state

C6_Witness ==
    /\ run.base = "ABSENT"
    /\ run.state = "DOWN"
    /\ run.delivered
    /\ run.len > MidOutageAlertAt
    /\ run.alerts = 1

\* C7: an evaluation of a target with a stored row stores last_sent_ts = now
\* when it delivered a notification and keeps the prior last_sent_ts when
\* delivery failed or nothing was attempted; last_state and both counters are
\* stored with their new values in every case.
C7_LastSentOnlyOnSuccess ==
    [][(EvalStep /\ HasAlertState(alert_state, EvalTarget))
       => LET cur == alert_state[EvalTarget]
              new == alert_state'[EvalTarget]
              e == last_eval'
          IN /\ e.sent => e.alert # NoAlert
             /\ new.last_sent_ts = IF e.sent THEN clock' ELSE cur.last_sent_ts
             /\ new.last_state = e.state
             /\ new.consecutive_failures =
                  IF e.state \in {"SLOW", "DOWN"}
                  THEN cur.consecutive_failures + 1 ELSE 0
             /\ new.consecutive_successes =
                  IF e.state = "OK"
                  THEN cur.consecutive_successes + 1 ELSE 0
      ]_vars

C7_Witness ==
    /\ last_eval.had_prior
    /\ last_eval.alert # NoAlert
    /\ ~last_eval.sent
    /\ alert_state[EvalTarget].last_sent_ts # None
    /\ alert_state[EvalTarget].last_sent_ts < clock
    /\ alert_state[EvalTarget].last_state = "DOWN"

\* C8: if an evaluation attempts a notification and delivery fails, the next
\* evaluation that observes the same health attempts a notification again.
C8_RetryAfterFailedDelivery ==
    [][(EvalStep /\ last_eval.alert # NoAlert /\ ~last_eval.sent
          /\ last_eval'.state = last_eval.state)
       => last_eval'.alert # NoAlert]_vars

\* C14: in every stored state of a target, bad_since_ts is present if and
\* only if last_state is SLOW or DOWN; in particular it is absent after every
\* evaluation that observed OK.
C14_BadSinceIffBad ==
    HasAlertState(alert_state, EvalTarget)
    => ((alert_state[EvalTarget].bad_since_ts # None)
        <=> IsBad(alert_state[EvalTarget].last_state))

\* C19: after an evaluation that observed SLOW or DOWN, the stored
\* bad_since_ts is the time of the first bad observation of the current run of
\* bad observations: the time of this evaluation when the run starts with it
\* (no row, or the stored last_state is OK), the stored value when the run
\* continues.
C19_BadSinceIsStartOfRun ==
    [][(EvalStep /\ IsBad(last_eval'.state))
       => alert_state'[EvalTarget].bad_since_ts =
            IF HasAlertState(alert_state, EvalTarget)
               /\ IsBad(alert_state[EvalTarget].last_state)
            THEN alert_state[EvalTarget].bad_since_ts
            ELSE clock'
      ]_vars

\* C20: every evaluation with a stored row stores consecutive_failures =
\* prior + 1 and consecutive_successes = 0 for SLOW or DOWN, and
\* consecutive_successes = prior + 1 and consecutive_failures = 0 for OK,
\* whether a notification was delivered, failed or was not attempted; with
\* the counters (1,0) or (0,1) of the first evaluation, consecutive_failures
\* is the length of the current run of bad observations.
C20_CountersFollowRule ==
    [][EvalStep
       => LET new == alert_state'[EvalTarget]
              e == last_eval'
          IN /\ HasAlertState(alert_state, EvalTarget)
                => LET cur == alert_state[EvalTarget] IN
                   /\ IsBad(e.state)
                      => /\ new.consecutive_failures = cur.consecutive_failures + 1
                         /\ new.consecutive_successes = 0
                   /\ e.state = "OK"
                      => /\ new.consecutive_successes = cur.consecutive_successes + 1
                         /\ new.consecutive_failures = 0
             /\ ~HasAlertState(alert_state, EvalTarget)
                => /\ new.consecutive_failures = (IF IsBad(e.state) THEN 1 ELSE 0)
                   /\ new.consecutive_successes = (IF IsBad(e.state) THEN 0 ELSE 1)
             /\ (IsBad(run'.state) /\ run'.base \in {"OK", "ABSENT"})
                => new.consecutive_failures = run'.len
             /\ e.state = "OK" => new.consecutive_failures = 0
      ]_vars

C20_Witness ==
    /\ last_eval.had_prior
    /\ last_eval.alert # NoAlert
    /\ ~last_eval.sent
    /\ IsBad(run.state)
    /\ run.base = "OK"
    /\ run.len = 2
    /\ alert_state[EvalTarget].consecutive_failures = 2
    /\ alert_state[EvalTarget].consecutive_successes = 0

\* The alert type of an onset OK -> SLOW that has reached fail_count_to_alert.
OnsetSlowKind ==
    AlertType([last_state |-> "OK", bad_since_ts |-> None, last_sent_ts |-> None,
               consecutive_failures |-> 0, consecutive_successes |-> 1],
              "SLOW",
              [fail_count_to_alert |-> 1, recover_count |-> 1, cooldown_sec |-> 0])

\* C22: whenever the stored last_state is DOWN and the observed health is
\* SLOW, the evaluation attempts a notification, whatever the counters and
\* last_sent_ts, and its kind is not the kind of an OK -> SLOW onset.
C22_DownToSlowKind ==
    [][(EvalStep /\ HasAlertState(alert_state, EvalTarget)
          /\ alert_state[EvalTarget].last_state = "DOWN"
          /\ last_eval'.state = "SLOW")
       => /\ last_eval'.alert # NoAlert
          /\ last_eval'.alert # OnsetSlowKind]_vars

\* C23: an evaluation that observes the bad health already stored as
\* last_state (DOWN after DOWN, SLOW after SLOW) attempts a notification
\* exactly when last_sent_ts is absent and consecutive_failures has reached
\* fail_count_to_alert; with last_sent_ts set it attempts none, however long
\* the run lasts.
C23_NoRepeatWhileSustained ==
    [][(EvalStep /\ HasAlertState(alert_state, EvalTarget)
          /\ IsBad(last_eval'.state)
          /\ alert_state[EvalTarget].last_state = last_eval'.state)
       => ((last_eval'.alert # NoAlert)
           <=> (/\ alert_state[EvalTarget].last_sent_ts = None
                /\ alert_state'[EvalTarget].consecutive_failures
                     >= profile.fail_count_to_alert))]_vars

C23_Witness ==
    /\ run.state = "DOWN"
    /\ run.len >= 3
    /\ run.alerts = 1
    /\ run.first_alert = 1
    /\ alert_state[EvalTarget].last_sent_ts # None
    /\ last_eval.alert = NoAlert
    /\ alert_state[EvalTarget].consecutive_failures
         > profile.fail_count_to_alert

\* C27 as stated: a run of bad observations that began from OK or from no
\* row and attempted no notification is not followed by a RECOVERED
\* notification.
C27_RecoveredOnlyAfterAlert_Original ==
    [][(EvalStep /\ IsBad(run.state) /\ run.base \in {"OK", "ABSENT"}
          /\ run.alerts = 0)
       => last_eval'.alert # "RECOVERED"]_vars

\* C27 amended: a RECOVERED notification is attempted exactly on an OK
\* observation whose stored last_state is SLOW or DOWN and whose
\* consecutive_successes has reached recover_count, whether or not a
\* notification was attempted during the bad run.
C27_RecoveredIffRule ==
    [][EvalStep
       => ((last_eval'.alert = "RECOVERED")
           <=> (/\ HasAlertState(alert_state, EvalTarget)
                /\ IsBad(alert_state[EvalTarget].last_state)
                /\ last_eval'.state = "OK"
                /\ alert_state'[EvalTarget].consecutive_successes
                     >= profile.recover_count))]_vars

C27_Witness ==
    /\ evals = 2
    /\ profile.fail_count_to_alert = 2
    /\ last_eval.alert = "RECOVERED"
    /\ last_eval.sent
    /\ alert_state[EvalTarget].last_sent_ts = clock

\* The rule table of the alert state machine in its stated order of
\* precedence: recovery, DOWN to SLOW, worsening or onset, sustained and
\* never notified, no match.
RuleTable(prior, health, prof) ==
    LET consecutive_bad == IF IsBad(health) THEN prior.consecutive_failures + 1
                           ELSE 0
        consecutive_good == IF health = "OK" THEN prior.consecutive_successes + 1
                            ELSE 0
        became == IF health = "DOWN" THEN "BECAME_DOWN" ELSE "BECAME_SLOW"
    IN IF /\ IsBad(prior.last_state) /\ health = "OK"
          /\ consecutive_good >= prof.recover_count
       THEN "RECOVERED"
       ELSE IF prior.last_state = "DOWN" /\ health = "SLOW"
       THEN "DOWN_TO_SLOW"
       ELSE IF /\ \/ prior.last_state = "SLOW" /\ health = "DOWN"
                  \/ prior.last_state = "OK" /\ IsBad(health)
               /\ consecutive_bad >= prof.fail_count_to_alert
       THEN became
       ELSE IF /\ IsBad(prior.last_state) /\ IsBad(health)
               /\ consecutive_bad >= prof.fail_count_to_alert
               /\ prior.last_sent_ts = None
       THEN became
       ELSE NoAlert

\* The kind of the rule table that an alert type of the code stands for.
KindOfAlertType(alert_type) ==
    CASE alert_type = "DOWN" -> "BECAME_DOWN"
      [] alert_type = "SLOW" -> "BECAME_SLOW"
      [] OTHER -> alert_type

\* C21: on every stored row, health and profile the decision of
\* process_check_result - whether a notification is attempted, and its kind -
\* is the decision of the rule table.
C21_DecisionEqualsRuleTable ==
    [][(EvalStep /\ HasAlertState(alert_state, EvalTarget))
       => KindOfAlertType(last_eval'.alert)
            = RuleTable(alert_state[EvalTarget], last_eval'.state, profile)]_vars

\* What holds of C21: the decisions are equal once the kind DOWN_TO_SLOW is
\* read as BECAME_SLOW, the one kind the code has for it.
C21_EqualUpToSlowKind ==
    [][(EvalStep /\ HasAlertState(alert_state, EvalTarget))
       => LET rule == RuleTable(alert_state[EvalTarget], last_eval'.state,
                                profile)
          IN KindOfAlertType(last_eval'.alert)
               = (IF rule = "DOWN_TO_SLOW" THEN "BECAME_SLOW" ELSE rule)]_vars

\* C28: in every stored state of a target, last_state is the health of its
\* latest evaluation, exactly one of consecutive_failures and
\* consecutive_successes is zero, consecutive_failures > 0 exactly when
\* last_state is SLOW or DOWN and consecutive_successes > 0 exactly when it
\* is OK.
C28_StoredStateConsistent ==
    HasAlertState(alert_state, EvalTarget)
    => LET row == alert_state[EvalTarget] IN
       /\ row.last_state = last_eval.state
       /\ (row.consecutive_failures = 0) # (row.consecutive_successes = 0)
       /\ (row.consecutive_failures > 0) <=> IsBad(row.last_state)
       /\ (row.consecutive_successes > 0) <=> (row.last_state = "OK")

C28_Witness ==
    /\ evals >= 4
    /\ alert_state[EvalTarget].last_state = "OK"
    /\ alert_state[EvalTarget].consecutive_successes = 2
    /\ alert_state[EvalTarget].consecutive_failures = 0
    /\ alert_state[EvalTarget].bad_since_ts # None

----------------------------------------------------------------------------
(* Properties of the orchestrator, checked under Spec *)

\* A step that starts a cycle: main reads the clock, later than the last time.
CycleStep == cycle_now' # cycle_now

\* C9: a configured page that has never been probed is selected as due within
\* one interval of the first cycle that sees it: a cycle that starts every_sec
\* or more after an earlier cycle finds every still unprobed page due.
C9_UnprobedPageBecomesDue ==
    [][\A i \in PageIds :
         (CycleStep /\ cycle_now # None /\ i \notin probed
            /\ clock - cycle_now >= config_pages[i].every_sec)
         => i \in Range(due')]_vars

C26_UnprobedDueIffOffset ==
    /\ [](\A i \in PageIds, now \in 0..MaxClock :
            LET page == config_pages[i] IN
            GetLastCheckTime(checks, page.target_id) = None
            => (ShouldCheckPage(page, checks, now)
                <=> (StableHash(page.target_id) % page.every_sec
                       >= page.every_sec)))
    /\ [][\A i \in PageIds :
            LET page == config_pages[i] IN
            (CycleStep /\ GetLastCheckTime(checks, page.target_id) = None)
            => ((i \in Range(due'))
                <=> (StableHash(page.target_id) % page.every_sec
                       >= page.every_sec))]_vars

C26_Witness ==
    \E i, j \in PageIds :
        /\ GetLastCheckTime(checks, config_pages[i].target_id) = None
        /\ StableHash(config_pages[i].target_id) = 1
        /\ i \notin Range(due)
        /\ j \in Range(due)
        /\ last_probe_cycle[j] # None
        /\ last_probe_cycle[j] < cycle_now
        /\ cycle_now - 1 >= config_pages[i].every_sec

\* C30: a target that has a recorded last probe time has one after every
\* step: no step, pruning included, removes its newest observation.
C30_LastProbeTimeStays ==
    [][\A t \in TargetIds :
         GetLastCheckTime(checks, t) # None
         => GetLastCheckTime(checks', t) # None]_vars

----------------------------------------------------------------------------
(* Properties of the worker pool, checked under SpecPool and SpecPoolFair *)

TargetOf(i) == config_pages[i].target_id

\* True when the observation of page i of this cycle is in the table checks.
SavedInCycle(i) ==
    \E c \in checks : c.target_id = TargetOf(i) /\ c.timestamp >= cycle_now

\* C11: when a statement of check_page raises for one page, the future of
\* every other page is left as it was and stays awaited; a future that has
\* not raised has saved its observation once it is past save_check and has
\* written its alert state when it is done; and every cycle that submitted
\* futures reaches cleanup_old_checks and close.
C11_FailureIsolation ==
    /\ [][\A i \in PageIds :
            (workers[i].pc # "raised" /\ workers'[i].pc = "raised")
            => /\ \A j \in PageIds \ {i} : workers'[j] = workers[j]
               /\ pending' = pending \ {i}
               /\ phase' = phase
               /\ checks' = checks
               /\ alert_state' = alert_state]_vars
    /\ [](\A i \in PageIds :
            (phase = "checking"
               /\ workers[i].pc \in {"saved", "read", "notified", "done"})
            => SavedInCycle(i))
    /\ [][\A i \in PageIds :
            (workers[i].pc # "done" /\ workers'[i].pc = "done")
            => /\ HasAlertState(alert_state', TargetOf(i))
               /\ alert_state'[TargetOf(i)].last_state = workers[i].state]_vars
    /\ \A i \in PageIds :
         (workers[i].pc = "submitted") ~> (workers[i].pc \in {"done", "raised"})
    /\ (phase = "checking") ~> (phase = "idle" /\ prunes = 1)

C11_Witness ==
    /\ phase = "idle"
    /\ prunes = 1
    /\ Len(pages_to_check) = 2
    /\ TargetOf(1) # TargetOf(2)
    /\ workers[1].pc = "raised"
    /\ workers[2].pc = "done"
    /\ alert_state[TargetOf(2)].consecutive_failures = 2

\* The pages that should_check_page finds due at time now.
DueSet(now) ==
    {i \in PageIds : ShouldCheckPage(config_pages[i], checks, now)}

\* The first n of a set of pages in configuration order.
FirstOf(S, n) == {i \in S : Cardinality({j \in S : j < i}) < n}

\* C12: the pages a cycle submits are the first max_checks_per_run due pages
\* in configuration order (all of them when fewer are due), in that order,
\* and until the next cycle only these pages are probed, at most
\* max_checks_per_run of them.
C12_CapKeepsFirstDue ==
    /\ [][CycleStep
          => /\ Range(due') = DueSet(clock)
             /\ Range(pages_to_check') = FirstOf(DueSet(clock), max_checks_per_run)
             /\ Len(pages_to_check') = Cardinality(Range(pages_to_check'))
             /\ \A a, b \in 1..Len(pages_to_check') :
                  a < b => pages_to_check'[a] < pages_to_check'[b]
             /\ pending' = Range(pages_to_check')]_vars
    /\ [](/\ Len(pages_to_check) <= max_checks_per_run
          /\ pages_to_check # <<>>
             => {i \in PageIds : workers[i].pc # "idle"} = Range(pages_to_check))
    /\ [][\A i \in PageIds :
            (workers[i].pc = "submitted" /\ workers'[i].pc # "submitted")
            => (phase = "checking" /\ i \in Range(pages_to_check))]_vars

C12_Witness ==
    /\ Len(due) = 2
    /\ max_checks_per_run = 1
    /\ pages_to_check = <<1>>
    /\ workers[1].pc = "done"
    /\ workers[2].pc = "idle"
    /\ phase = "idle"

\* C15: within check_page the alert state is written to the store before
\* delivery of the notification is attempted: a worker that has called
\* _send_alert has stored the health it observed and the new counters.
C15_PersistBeforeNotify ==
    \A i \in PageIds :
        workers[i].pc = "notified"
        => /\ alert_state[TargetOf(i)].last_state = workers[i].state
           /\ alert_state[TargetOf(i)].consecutive_failures =
                NewFailures(workers[i].cur, workers[i].state)
           /\ alert_state[TargetOf(i)].consecutive_successes =
                NewSuccesses(workers[i].cur, workers[i].state)

\* C16: no cycle submits two futures for the same target id, and no two
\* workers of the pool are between get_alert_state and update_alert_state of
\* the same target at the same time.
C16_NoTargetTwice ==
    \A i, j \in PageIds :
        (i # j /\ TargetOf(i) = TargetOf(j))
        => /\ ~(i \in Range(pages_to_check) /\ j \in Range(pages_to_check))
           /\ ~(workers[i].pc \in {"read", "notified"}
                /\ workers[j].pc \in {"read", "notified"})

\* C17: a probe that exceeds its timeout is classified DOWN; unless a later
\* statement raises, its observation is saved and DOWN is stored as the
\* target's last_state; every submitted future ends, and every cycle reaches
\* cleanup_old_checks and close.
C17_TimeoutIsDownAndCycleEnds ==
    /\ [](\A i \in PageIds :
            (workers[i].pc \notin {"idle", "submitted"}
               /\ workers[i].metrics = TimeoutMetrics)
            => workers[i].state = "DOWN")
    /\ [][\A i \in PageIds :
            (workers[i].metrics = TimeoutMetrics
               /\ workers[i].pc = "probed" /\ workers'[i].pc = "saved")
            => [target_id |-> TargetOf(i), timestamp |-> clock] \in checks']_vars
    /\ [][\A i \in PageIds :
            (workers[i].metrics = TimeoutMetrics
               /\ workers[i].pc # "done" /\ workers'[i].pc = "done")
            => /\ alert_state'[TargetOf(i)].last_state = "DOWN"
               /\ alert_state'[TargetOf(i)].consecutive_successes = 0
               /\ SavedInCycle(i)]_vars
    /\ \A i \in PageIds :
         (workers[i].pc \in InFlight) ~> (workers[i].pc \notin InFlight)
    /\ (pending # {}) ~> (pending = {} /\ phase = "idle" /\ prunes = 1)

C17_Witness ==
    /\ phase = "idle"
    /\ prunes = 1
    /\ workers[1].pc = "done"
    /\ workers[1].metrics = TimeoutMetrics
    /\ workers[1].alert = "DOWN"
    /\ workers[1].success
    /\ [target_id |-> TargetOf(1), timestamp |-> clock] \in checks

\* A step on which main returns: after the pool has finished, or at once when
\* no page is due.
CycleEnds ==
    \/ phase = "checking" /\ phase' = "idle"
    \/ CycleStep /\ phase' = "idle"

\* C18: cleanup_old_checks runs exactly once in every cycle, with or without
\* due pages, when no future of the cycle is in flight any more; it deletes
\* exactly the rows older than now - retention_days days, and no other step
\* deletes a row.
C18_PruneOncePerCycle ==
    /\ [](phase = "checking" => prunes = 0)
    /\ []((phase = "idle" /\ cycle_now # None) => prunes = 1)
    /\ [][CycleEnds
          => /\ pending = {}
             /\ \A i \in PageIds : workers[i].pc \notin InFlight
             /\ prunes' = 1
             /\ checks' = {c \in checks :
                              c.timestamp >= clock - retention_days * DaySec}]_vars
    /\ [][~CycleEnds => (checks \subseteq checks' /\ prunes' \in {0, prunes})]_vars

C18_Witness ==
    /\ retention_days = 0
    /\ phase = "idle"
    /\ prunes = 1
    /\ workers[1].pc = "done"
    /\ workers[2].pc = "raised"
    /\ checks # {}
    /\ \A c \in checks : c.timestamp >= clock

\* C25: when the write of the alert state fails in check_page (the future
\* ends with the exception after get_alert_state), the stored alert state is
\* unchanged and no notification of that evaluation has been delivered.
C25_FailedWriteLeavesNothing ==
    [][\A i \in PageIds :
         (workers[i].pc \in {"read", "notified"} /\ workers'[i].pc = "raised")
         => /\ alert_state' = alert_state
            /\ ~(workers[i].pc = "notified" /\ workers[i].success)]_vars

----------------------------------------------------------------------------
(* Properties of the capped cycles run from cron, checked under SpecCron *)

\* C29: every page that has been probed before and is due is probed in that
\* cycle or in a later one, whatever max_checks_per_run is.
C29_NoStarvationUnderCap ==
    \A i \in DOMAIN PagesThree :
        (i \in probed /\ ShouldCheckPage(PagesThree[i], checks, clock))
        ~> (GetLastCheckTime(checks, PagesThree[i].target_id) = clock)

----------------------------------------------------------------------------
(* Properties of the bot's check beside a cycle, checked under SpecRace *)

\* What two stored rows are compared by: the state, the counters, and
\* whether bad_since_ts and last_sent_ts are set.
Shape(row) ==
    [last_state |-> row.last_state,
     consecutive_failures |-> row.consecutive_failures,
     consecutive_successes |-> row.consecutive_successes,
     has_bad_since |-> row.bad_since_ts # None,
     has_last_sent |-> row.last_sent_ts # None]

\* The row left by process_check_result for first and then for second,
\* one after the other, from the stored row pre.
RowAfterBoth(pre, first, second, sent_first, sent_second) ==
    LET t == EvalTarget
        tbl0 == [x \in {t} |-> pre]
        tbl1 == ProcessCheckResult(tbl0, t, first, profile, clock,
                                   sent_first).table
    IN ProcessCheckResult(tbl1, t, second, profile, clock, sent_second).table[t]

SerialShapes(pre, a, b) ==
    {Shape(RowAfterBoth(pre, o[1], o[2], s1, s2)) :
       o \in {<<a, b>>, <<b, a>>}, s1 \in SendResults, s2 \in SendResults}

\* C24: when the bot's check of a page and the cycle's check_page of the same
\* page have both written the alert state of the target, the stored row is the
\* row that the two evaluations leave when run one after the other in one of
\* the two orders.
C24_SerialOutcome ==
    (/\ bot.pc = "done"
     /\ bot.cycle = cycle_now
     /\ bot.had_row
     /\ workers[bot.page].pc = "done")
    => Shape(alert_state[config_pages[bot.page].target_id])
         \in SerialShapes(bot.pre, workers[bot.page].state, bot.state)

====
